---- MODULE Spec2Model ----
(***************************************************************************)
(* Console hotel management system (main.go): two in-memory stores, users  *)
(* and rooms, each written in full to a JSON file after every mutation,    *)
(* and a sequential menu loop dispatching to the admin and customer        *)
(* operations.  One action models one complete handler.                    *)
(*                                                                         *)
(* Lines typed at a prompt are modelled as strings; strconv.Atoi and       *)
(* strconv.ParseFloat are tables over the literals the model types.        *)
(* A float64 is a record [k, v]: k = "fin" with the integer value v, or    *)
(* k in {"nan", "pinf", "ninf"} (v = 0).  Only integer-valued finite       *)
(* floats are modelled, on which float arithmetic is exact.                *)
(***************************************************************************)
EXTENDS Integers, Sequences, FiniteSets, TLC

VARIABLES
    users,      \* var users []User
    rooms,      \* var rooms []Room
    usersFile,  \* decoded content of users.json
    roomsFile,  \* decoded content of rooms.json
    menu,       \* which menu loop is reading the next choice
    cur,        \* index in users of the logged-in customer (*User), else 0
    last        \* the operation last run and the result message it printed

vars == <<users, rooms, usersFile, roomsFile, menu, cur, last>>

\* ------------------------------------------------------------------ bounds
\* Largest ID an add may assign: IDs grow without bound under delete + add.
\* IDs are distinct, so these also bound the length of each store.  With
\* three IDs a store holds three records, a delete leaves two of them in
\* order, and an add follows a delete of a record that was not the last.
MaxUserID == 3
MaxRoomID == 3

\* -------------------------------------------------------------- float64
F(n) == [k |-> "fin", v |-> n]
NaN == [k |-> "nan", v |-> 0]
PInf == [k |-> "pinf", v |-> 0]
NInf == [k |-> "ninf", v |-> 0]

IsFinite(a) == a.k = "fin"

\* sign of a non-NaN float: -1, 0, 1
FSign(a) ==
    CASE a.k = "pinf" -> 1
      [] a.k = "ninf" -> -1
      [] OTHER -> IF a.v > 0 THEN 1 ELSE IF a.v < 0 THEN -1 ELSE 0

\* a * b
FMul(a, b) ==
    IF a.k = "nan" \/ b.k = "nan" THEN NaN
    ELSE IF IsFinite(a) /\ IsFinite(b) THEN F(a.v * b.v)
    ELSE IF FSign(a) * FSign(b) = 0 THEN NaN
    ELSE IF FSign(a) * FSign(b) > 0 THEN PInf ELSE NInf

\* a - b
FSub(a, b) ==
    IF a.k = "nan" \/ b.k = "nan" THEN NaN
    ELSE IF IsFinite(a) /\ IsFinite(b) THEN F(a.v - b.v)
    ELSE IF IsFinite(b) THEN a
    ELSE IF a.k = b.k THEN NaN
    ELSE IF b.k = "pinf" THEN NInf ELSE PInf

\* a < b
FLt(a, b) ==
    IF a.k = "nan" \/ b.k = "nan" THEN FALSE
    ELSE IF IsFinite(a) /\ IsFinite(b) THEN a.v < b.v
    ELSE IF a.k = b.k THEN FALSE
    ELSE a.k = "ninf" \/ b.k = "pinf"

\* ------------------------------------------------------- typed input lines
\* Decimal integer literals the model types.
IntLit == ("-1" :> -1) @@ ("0" :> 0) @@ ("1" :> 1) @@ ("2" :> 2) @@ ("3" :> 3)
          @@ ("500" :> 500) @@ ("1000" :> 1000)

\* strconv.Atoi
Atoi(s) ==
    IF s \in DOMAIN IntLit THEN [err |-> FALSE, v |-> IntLit[s]]
    ELSE [err |-> TRUE, v |-> 0]

\* strconv.ParseFloat(s, 64): the integer literals and the special values.
ParseFloat(s) ==
    IF s \in DOMAIN IntLit THEN [err |-> FALSE, v |-> F(IntLit[s])]
    ELSE IF s = "NaN" THEN [err |-> FALSE, v |-> NaN]
    ELSE IF s = "Inf" THEN [err |-> FALSE, v |-> PInf]
    ELSE IF s = "-Inf" THEN [err |-> FALSE, v |-> NInf]
    ELSE [err |-> TRUE, v |-> F(0)]

UsernameInputs == {"admin", "bob"}
PasswordInputs == {"admin", "bad"}
NewUserPasswordInputs == {"admin"}
RoleChoiceInputs == {"1", "2", "3"}
TypeChoiceInputs == {"2"}
\* updateUser's four answers: new username, new password, new customer
\* type, new balance
UpdateUserInputs ==
    { <<"", "", "", "">>, <<"admin", "", "", "">>, <<"", "admin", "2", "1000">>,
      <<"admin", "admin", "", "x">>, <<"", "", "2", "x">> }
UserIDInputs == {"x", "1", "2", "3"}
ConfirmInputs == {"y", "n"}
RoomTypeInputs == {"std"}
PriceInputs == {"x", "500"}
TotalInputs == {"x", "-1", "2"}
\* updateRoom's three answers: new type, new price, new total
UpdateRoomInputs ==
    { <<"", "", "">>, <<"std", "500", "2">>, <<"", "", "0">>,
      <<"std", "x", "0">>, <<"", "500", "x">>, <<"", "x", "x">> }
RoomIDInputs == {"x", "1", "2", "3"}
QuantityInputs == {"x", "0", "2"}

\* ---------------------------------------------------------- persistence
\* A typed line holding a byte that is not valid UTF-8, and what
\* encoding/json writes for it (the byte replaced by U+FFFD).
BadUTF8 == "caf<ff>"
Replaced == "caf<fffd>"

\* A string as encoding/json writes it and reads it back.
EncodeString(s) == IF s = BadUTF8 THEN Replaced ELSE s

EncodeUser(u) ==
    [id |-> u.id, username |-> EncodeString(u.username),
     password |-> EncodeString(u.password), role |-> EncodeString(u.role),
     customer_type |-> EncodeString(u.customer_type), balance |-> u.balance]

EncodeRoom(r) ==
    [id |-> r.id, type |-> EncodeString(r.type), price |-> r.price,
     total |-> r.total, available |-> r.available]

\* json.MarshalIndent: an error on a NaN or infinite float, else the array.
MarshalUsers(us) ==
    IF \E i \in 1..Len(us) : ~IsFinite(us[i].balance)
    THEN [err |-> TRUE, data |-> <<>>]
    ELSE [err |-> FALSE, data |-> [i \in 1..Len(us) |-> EncodeUser(us[i])]]

MarshalRooms(rs) ==
    IF \E i \in 1..Len(rs) : ~IsFinite(rs[i].price)
    THEN [err |-> TRUE, data |-> <<>>]
    ELSE [err |-> FALSE, data |-> [i \in 1..Len(rs) |-> EncodeRoom(rs[i])]]

\* saveUsers: the file after saving us when it held file before.
saveUsers(us, file) ==
    LET m == MarshalUsers(us) IN IF m.err THEN file ELSE m.data

\* saveRooms
saveRooms(rs, file) ==
    LET m == MarshalRooms(rs) IN IF m.err THEN file ELSE m.data

\* json.Unmarshal of a file's content, as loadUsers / loadRooms read it.
loadUsers(file) == file
loadRooms(file) == file

\* ------------------------------------------------------------- helpers
InitialBalance == 1000

Max(S) == CHOOSE x \in S : \A y \in S : y <= x

\* getNextUserID numbering by the count of records instead of the largest ID
getNextUserIDByCount(us) == Len(us) + 1

\* getNextUserID
getNextUserID(us) == Max({0} \cup {us[i].id : i \in 1..Len(us)}) + 1
\* getNextRoomID
getNextRoomID(rs) == Max({0} \cup {rs[i].id : i \in 1..Len(rs)}) + 1

\* the index a "for i := range ... break" scan stops at: the first of the
\* matching indexes I, 0 when there is none
FirstIndex(I) == IF I = {} THEN 0 ELSE CHOOSE i \in I : \A j \in I : i <= j

\* a delete that drops the last record instead of the one found
RemoveLast(s, i) == SubSeq(s, 1, Len(s) - 1)

\* append(s[:index], s[index+1:]...) with index = i - 1
RemoveAt(s, i) == [j \in 1..(Len(s) - 1) |-> IF j < i THEN s[j] ELSE s[j + 1]]

Said(op, msg) == [op |-> op, msg |-> msg]

\* ------------------------------------------------------------------ Init
\* main: loadUsers and loadRooms with neither file present.
SeedUsers ==
    << [id |-> 1, username |-> "admin", password |-> "admin", role |-> "admin",
        customer_type |-> "", balance |-> F(0)] >>

Init ==
    /\ users = SeedUsers
    /\ rooms = <<>>
    /\ usersFile = saveUsers(SeedUsers, <<>>)
    /\ roomsFile = saveRooms(<<>>, <<>>)
    /\ menu = "main"
    /\ cur = 0
    /\ last = Said("main", "welcome")

\* ------------------------------------------------------- login / menus
login(username, password) ==
    /\ menu = "main"
    /\ LET i == FirstIndex({j \in 1..Len(users) :
                                /\ users[j].username = username
                                /\ users[j].password = password})
       IN IF i = 0
          THEN /\ last' = Said("login", "wrong username or password")
               /\ UNCHANGED <<menu, cur>>
          ELSE /\ last' = Said("login", "login ok")
               /\ menu' = (IF users[i].role = "admin" THEN "admin" ELSE "customer")
               /\ cur' = (IF users[i].role = "admin" THEN 0 ELSE i)
    /\ UNCHANGED <<users, rooms, usersFile, roomsFile>>

\* main, choice "3"
exit ==
    /\ menu = "main"
    /\ menu' = "exit"
    /\ last' = Said("main", "exit")
    /\ UNCHANGED <<users, rooms, usersFile, roomsFile, cur>>

\* adminMenu, choices "1", "2", "3"
adminMenu(choice) ==
    /\ menu = "admin"
    /\ menu' = (CASE choice = "1" -> "adminUser"
                  [] choice = "2" -> "adminRoom"
                  [] OTHER -> "main")
    /\ last' = Said("adminMenu", IF choice = "3" THEN "logout" ELSE "")
    /\ UNCHANGED <<users, rooms, usersFile, roomsFile, cur>>

\* adminUserManagement / adminRoomManagement, choice "5"
adminBack ==
    /\ menu \in {"adminUser", "adminRoom"}
    /\ menu' = "admin"
    /\ last' = Said("adminMenu", "")
    /\ UNCHANGED <<users, rooms, usersFile, roomsFile, cur>>

\* customerMenu, choice "4": saves the users and returns
customerLogout ==
    /\ menu = "customer"
    /\ menu' = "main"
    /\ cur' = 0
    /\ usersFile' = saveUsers(users, usersFile)
    /\ last' = Said("customerMenu", "logout")
    /\ UNCHANGED <<users, rooms, roomsFile>>

\* ------------------------------------------------------ user management
\* the scan started one record too late: the first record is never compared
UsernameExistsAfterFirst(us, username) ==
    \E i \in 2..Len(us) : us[i].username = username

\* the "username already exists" scan of registerCustomer and addUser
UsernameExists(us, username) == \E i \in 1..Len(us) : us[i].username = username

\* registerCustomer
registerCustomer(username, password, choice) ==
    /\ menu = "main"
    /\ IF UsernameExists(users, username)
       THEN /\ last' = Said("registerCustomer", "username exists")
            /\ UNCHANGED <<users, usersFile>>
       ELSE /\ getNextUserID(users) <= MaxUserID
            /\ users' = Append(users,
                   [id |-> getNextUserID(users), username |-> username,
                    password |-> password, role |-> "customer",
                    customer_type |-> (IF choice = "1" THEN "member" ELSE "regular"),
                    balance |-> F(InitialBalance)])
            /\ usersFile' = saveUsers(users', usersFile)
            /\ last' = Said("registerCustomer", "registered")
    /\ UNCHANGED <<rooms, roomsFile, menu, cur>>

\* addUser
addUser(username, password, roleChoice, ctChoice) ==
    /\ menu = "adminUser"
    /\ IF UsernameExists(users, username)
       THEN /\ last' = Said("addUser", "username exists")
            /\ UNCHANGED <<users, usersFile>>
       ELSE IF roleChoice \notin {"1", "2"}
       THEN /\ last' = Said("addUser", "invalid role choice")
            /\ UNCHANGED <<users, usersFile>>
       ELSE /\ getNextUserID(users) <= MaxUserID
            /\ users' = Append(users,
                   [id |-> getNextUserID(users), username |-> username,
                    password |-> password,
                    role |-> (IF roleChoice = "1" THEN "admin" ELSE "customer"),
                    customer_type |-> (IF roleChoice = "1" THEN ""
                                       ELSE IF ctChoice = "1" THEN "member"
                                       ELSE "regular"),
                    balance |-> (IF roleChoice = "1" THEN F(0)
                                 ELSE F(InitialBalance))])
            /\ usersFile' = saveUsers(users', usersFile)
            /\ last' = Said("addUser", "user added")
    /\ UNCHANGED <<rooms, roomsFile, menu, cur>>

\* an update that gives up, keeping the old record, when the balance typed
\* for a customer does not parse
updatedUserAllOrNothing(u, newUsername, newPassword, ctChoice, balanceStr) ==
    IF u.role = "customer" /\ balanceStr # "" /\ ParseFloat(balanceStr).err
    THEN u
    ELSE [id |-> u.id,
          username |-> (IF newUsername # "" THEN newUsername ELSE u.username),
          password |-> (IF newPassword # "" THEN newPassword ELSE u.password),
          role |-> u.role,
          customer_type |->
             (IF u.role # "customer" THEN u.customer_type
              ELSE IF ctChoice = "1" THEN "member"
              ELSE IF ctChoice = "2" THEN "regular"
              ELSE u.customer_type),
          balance |->
             (IF u.role = "customer" /\ balanceStr # ""
              THEN ParseFloat(balanceStr).v
              ELSE u.balance)]

\* updateUser, lines 359-391: the record after the prompts were answered
updatedUser(u, newUsername, newPassword, ctChoice, balanceStr) ==
    [id |-> u.id,
     username |-> (IF newUsername # "" THEN newUsername ELSE u.username),
     password |-> (IF newPassword # "" THEN newPassword ELSE u.password),
     role |-> u.role,
     customer_type |->
        (IF u.role # "customer" THEN u.customer_type
         ELSE IF ctChoice = "1" THEN "member"
         ELSE IF ctChoice = "2" THEN "regular"
         ELSE u.customer_type),
     balance |->
        (IF u.role = "customer" /\ balanceStr # "" /\ ~ParseFloat(balanceStr).err
         THEN ParseFloat(balanceStr).v
         ELSE u.balance)]

\* updateUser
updateUser(idStr, newUsername, newPassword, ctChoice, balanceStr) ==
    /\ menu = "adminUser"
    /\ LET i == FirstIndex({j \in 1..Len(users) : users[j].id = Atoi(idStr).v})
       IN IF Atoi(idStr).err
          THEN /\ last' = Said("updateUser", "invalid ID")
               /\ UNCHANGED <<users, usersFile>>
          ELSE IF i = 0
          THEN /\ last' = Said("updateUser", "user not found")
               /\ UNCHANGED <<users, usersFile>>
          ELSE /\ users' = [users EXCEPT ![i] =
                      updatedUser(users[i], newUsername, newPassword,
                                  ctChoice, balanceStr)]
               /\ usersFile' = saveUsers(users', usersFile)
               /\ last' = Said("updateUser",
                      IF users[i].role = "customer" /\ balanceStr # ""
                         /\ ParseFloat(balanceStr).err
                      THEN "invalid balance input; user updated"
                      ELSE "user updated")
    /\ UNCHANGED <<rooms, roomsFile, menu, cur>>

\* deleteUser
deleteUser(idStr, confirm) ==
    /\ menu = "adminUser"
    /\ LET i == FirstIndex({j \in 1..Len(users) : users[j].id = Atoi(idStr).v})
       IN IF Atoi(idStr).err
          THEN /\ last' = Said("deleteUser", "invalid ID")
               /\ UNCHANGED <<users, usersFile>>
          ELSE IF i = 0
          THEN /\ last' = Said("deleteUser", "user not found")
               /\ UNCHANGED <<users, usersFile>>
          ELSE IF confirm \notin {"y", "Y"}
          THEN /\ last' = Said("deleteUser", "")
               /\ UNCHANGED <<users, usersFile>>
          ELSE /\ users' = RemoveAt(users, i)
               /\ usersFile' = saveUsers(users', usersFile)
               /\ last' = Said("deleteUser", "user deleted")
    /\ UNCHANGED <<rooms, roomsFile, menu, cur>>

\* ------------------------------------------------------ room management
\* addRoom
addRoom(roomType, priceStr, totalStr) ==
    /\ menu = "adminRoom"
    /\ IF ParseFloat(priceStr).err
       THEN /\ last' = Said("addRoom", "invalid price input")
            /\ UNCHANGED <<rooms, roomsFile>>
       ELSE IF Atoi(totalStr).err
       THEN /\ last' = Said("addRoom", "invalid room count")
            /\ UNCHANGED <<rooms, roomsFile>>
       ELSE /\ getNextRoomID(rooms) <= MaxRoomID
            /\ rooms' = Append(rooms,
                   [id |-> getNextRoomID(rooms), type |-> roomType,
                    price |-> ParseFloat(priceStr).v,
                    total |-> Atoi(totalStr).v,
                    available |-> Atoi(totalStr).v])
            /\ roomsFile' = saveRooms(rooms', roomsFile)
            /\ last' = Said("addRoom", "room added")
    /\ UNCHANGED <<users, usersFile, menu, cur>>

\* updateRoom, lines 542-547: the available count for a new total
adjustAvailable(r, total) ==
    LET diff == total - r.total
    IN IF r.available + diff < 0 THEN 0 ELSE r.available + diff

\* updateRoom, lines 518-551: the record after the prompts were answered
updatedRoom(r, newType, priceStr, totalStr) ==
    [id |-> r.id,
     type |-> (IF newType # "" THEN newType ELSE r.type),
     price |-> (IF priceStr # "" /\ ~ParseFloat(priceStr).err
                THEN ParseFloat(priceStr).v ELSE r.price),
     total |-> (IF totalStr # "" /\ ~Atoi(totalStr).err
                THEN Atoi(totalStr).v ELSE r.total),
     available |-> (IF totalStr # "" /\ ~Atoi(totalStr).err
                    THEN adjustAvailable(r, Atoi(totalStr).v)
                    ELSE r.available)]

\* updateRoom
updateRoom(idStr, newType, priceStr, totalStr) ==
    /\ menu = "adminRoom"
    /\ LET i == FirstIndex({j \in 1..Len(rooms) : rooms[j].id = Atoi(idStr).v})
       IN IF Atoi(idStr).err
          THEN /\ last' = Said("updateRoom", "invalid ID")
               /\ UNCHANGED <<rooms, roomsFile>>
          ELSE IF i = 0
          THEN /\ last' = Said("updateRoom", "room not found")
               /\ UNCHANGED <<rooms, roomsFile>>
          ELSE /\ rooms' = [rooms EXCEPT ![i] =
                      updatedRoom(rooms[i], newType, priceStr, totalStr)]
               /\ roomsFile' = saveRooms(rooms', roomsFile)
               /\ last' = Said("updateRoom",
                      IF \/ priceStr # "" /\ ParseFloat(priceStr).err
                         \/ totalStr # "" /\ Atoi(totalStr).err
                      THEN "invalid input; room updated"
                      ELSE "room updated")
    /\ UNCHANGED <<users, usersFile, menu, cur>>

\* deleteRoom
deleteRoom(idStr, confirm) ==
    /\ menu = "adminRoom"
    /\ LET i == FirstIndex({j \in 1..Len(rooms) : rooms[j].id = Atoi(idStr).v})
       IN IF Atoi(idStr).err
          THEN /\ last' = Said("deleteRoom", "invalid ID")
               /\ UNCHANGED <<rooms, roomsFile>>
          ELSE IF i = 0
          THEN /\ last' = Said("deleteRoom", "room not found")
               /\ UNCHANGED <<rooms, roomsFile>>
          ELSE IF confirm \notin {"y", "Y"}
          THEN /\ last' = Said("deleteRoom", "")
               /\ UNCHANGED <<rooms, roomsFile>>
          ELSE /\ rooms' = RemoveAt(rooms, i)
               /\ roomsFile' = saveRooms(rooms', roomsFile)
               /\ last' = Said("deleteRoom", "room deleted")
    /\ UNCHANGED <<users, usersFile, menu, cur>>

\* ------------------------------------------------------------- booking
\* a cost that forgets the quantity
totalCostOfOne(r, quantity) == r.price

\* bookRoom, line 653
totalCost(r, quantity) == FMul(r.price, F(quantity))

\* a booking that adds the quantity to the available count
bookedRoomAdds(r, quantity) == [r EXCEPT !.available = r.available + quantity]

\* bookRoom, lines 659-660: the customer and the room after the booking
bookedUser(u, cost) == [u EXCEPT !.balance = FSub(u.balance, cost)]
bookedRoom(r, quantity) == [r EXCEPT !.available = r.available - quantity]

\* the checks of bookRoom without the one on the available count
rejectionNoStockCheck(u, rs, idStr, quantityStr) ==
    LET i == FirstIndex({j \in 1..Len(rs) : rs[j].id = Atoi(idStr).v})
        quantity == Atoi(quantityStr).v
    IN IF Len(rs) = 0 THEN "no rooms to book"
       ELSE IF Atoi(idStr).err THEN "invalid room ID"
       ELSE IF i = 0 THEN "room not found"
       ELSE IF Atoi(quantityStr).err \/ quantity <= 0 THEN "invalid quantity"
       ELSE IF FLt(u.balance, FMul(rs[i].price, F(quantity)))
       THEN "insufficient balance"
       ELSE ""

\* bookRoom, lines 618-657: the message of the first check that fails for
\* customer u, "" when every check passes
rejection(u, rs, idStr, quantityStr) ==
    LET i == FirstIndex({j \in 1..Len(rs) : rs[j].id = Atoi(idStr).v})
        quantity == Atoi(quantityStr).v
    IN IF Len(rs) = 0 THEN "no rooms to book"
       ELSE IF Atoi(idStr).err THEN "invalid room ID"
       ELSE IF i = 0 THEN "room not found"
       ELSE IF Atoi(quantityStr).err \/ quantity <= 0 THEN "invalid quantity"
       ELSE IF quantity > rs[i].available THEN "quantity exceeds available rooms"
       ELSE IF FLt(u.balance, totalCost(rs[i], quantity))
       THEN "insufficient balance"
       ELSE ""

\* bookRoom(customer) with customer = &users[cur]
bookRoom(idStr, quantityStr) ==
    /\ menu = "customer"
    /\ LET i == FirstIndex({j \in 1..Len(rooms) : rooms[j].id = Atoi(idStr).v})
           quantity == Atoi(quantityStr).v
           why == rejection(users[cur], rooms, idStr, quantityStr)
       IN IF why # ""
          THEN /\ last' = Said("bookRoom", why)
               /\ UNCHANGED <<users, rooms, usersFile, roomsFile>>
          ELSE /\ users' = [users EXCEPT ![cur] =
                      bookedUser(users[cur], totalCost(rooms[i], quantity))]
               /\ rooms' = [rooms EXCEPT ![i] = bookedRoom(rooms[i], quantity)]
               /\ usersFile' = saveUsers(users', usersFile)
               /\ roomsFile' = saveRooms(rooms', roomsFile)
               /\ last' = Said("bookRoom", "booked")
    /\ UNCHANGED <<menu, cur>>

\* ------------------------------------------------------------------ Next
Next ==
    \/ \E u \in UsernameInputs, p \in PasswordInputs : login(u, p)
    \/ exit
    \/ \E c \in {"1", "2", "3"} : adminMenu(c)
    \/ adminBack
    \/ customerLogout
    \/ \E u \in UsernameInputs, p \in NewUserPasswordInputs, c \in TypeChoiceInputs :
          registerCustomer(u, p, c)
    \/ \E u \in UsernameInputs, p \in NewUserPasswordInputs, r \in RoleChoiceInputs,
          c \in TypeChoiceInputs : addUser(u, p, r, c)
    \/ \E id \in UserIDInputs, a \in UpdateUserInputs :
          updateUser(id, a[1], a[2], a[3], a[4])
    \/ \E id \in UserIDInputs, c \in ConfirmInputs : deleteUser(id, c)
    \/ \E t \in RoomTypeInputs, p \in PriceInputs, n \in TotalInputs :
          addRoom(t, p, n)
    \/ \E id \in RoomIDInputs, a \in UpdateRoomInputs :
          updateRoom(id, a[1], a[2], a[3])
    \/ \E id \in RoomIDInputs, c \in ConfirmInputs : deleteRoom(id, c)
    \/ \E id \in RoomIDInputs, q \in QuantityInputs : bookRoom(id, q)

Spec == Init /\ [][Next]_vars

\* A room-management session of the admin in which values encoding/json
\* cannot write back unchanged are typed too: a NaN price, a type that is
\* not UTF-8.
UnencodableTypeInputs == {"std", BadUTF8}
UnencodablePriceInputs == {"500", "NaN"}

NextUnencodable ==
    \/ \E u \in UsernameInputs, p \in PasswordInputs : login(u, p)
    \/ exit
    \/ \E c \in {"1", "2", "3"} : adminMenu(c)
    \/ adminBack
    \/ \E t \in UnencodableTypeInputs, p \in UnencodablePriceInputs :
          addRoom(t, p, "2")
    \/ \E id \in RoomIDInputs, p \in UnencodablePriceInputs :
          updateRoom(id, "", p, "")
    \/ \E id \in RoomIDInputs, c \in ConfirmInputs : deleteRoom(id, c)

SpecUnencodable == Init /\ [][NextUnencodable]_vars

\* =================================================================
\* Properties
\* =================================================================
UserIDs(us) == {us[i].id : i \in 1..Len(us)}
RoomIDs(rs) == {rs[i].id : i \in 1..Len(rs)}
\* the record of store s with ID n (there is one)
ByID(s, n) == s[CHOOSE i \in 1..Len(s) : s[i].id = n]
\* store s without the records whose ID is n, order kept
Without(s, n) == SelectSeq(s, LAMBDA r : r.id # n)
StoresUnchanged == UNCHANGED <<users, rooms, usersFile, roomsFile>>
\* what a restart would load is what memory holds
UsersPersisted == loadUsers(usersFile) = users
RoomsPersisted == loadRooms(roomsFile) = rooms

\* C1: every room record satisfies 0 <= available <= total, whatever
\* integer the admin types as a total.
C1_AvailableWithinTotal ==
    \A i \in 1..Len(rooms) :
        0 <= rooms[i].available /\ rooms[i].available <= rooms[i].total

\* The preconditions of a booking by the logged-in customer, as the claim
\* lists them.
BookingPreconditionFails(idStr, quantityStr) ==
    \/ Atoi(idStr).err
    \/ Atoi(idStr).v \notin RoomIDs(rooms)
    \/ Atoi(quantityStr).err
    \/ Atoi(quantityStr).v <= 0
    \/ Atoi(quantityStr).v > ByID(rooms, Atoi(idStr).v).available
    \/ FLt(users[cur].balance,
           FMul(ByID(rooms, Atoi(idStr).v).price, F(Atoi(quantityStr).v)))

\* C2: a bookRoom whose room ID is not numeric or not present, whose
\* quantity is not a positive integer or exceeds the room's available
\* count, or whose cost exceeds the customer's balance, is rejected and
\* leaves users, rooms and both files as they were.
C2_RejectedBookingChangesNothing ==
    [][last'.op = "bookRoom" =>
          \A id \in RoomIDInputs, q \in QuantityInputs :
             (BookingPreconditionFails(id, q) /\ bookRoom(id, q))
                 => (last'.msg # "booked" /\ StoresUnchanged)]_vars

C2_Witness ==
    /\ last = Said("bookRoom", "insufficient balance")
    /\ Len(rooms) > 0

\* C3: a successful bookRoom lowers the customer's balance by exactly
\* price * quantity and the room's available by exactly quantity, and
\* changes nothing else in either store.
C3_BookingDebitsExactly ==
    [][last' = Said("bookRoom", "booked") =>
       \A id \in RoomIDInputs, q \in QuantityInputs :
          bookRoom(id, q)
              => LET n == Atoi(q).v
                     r == ByID(rooms, Atoi(id).v)
                 IN /\ Len(users') = Len(users)
                    /\ Len(rooms') = Len(rooms)
                    /\ \A j \in 1..Len(users) :
                          users'[j] =
                             IF j = cur
                             THEN [users[j] EXCEPT !.balance =
                                      FSub(users[j].balance, FMul(r.price, F(n)))]
                             ELSE users[j]
                    /\ \A j \in 1..Len(rooms) :
                          rooms'[j] =
                             IF rooms[j].id = r.id
                             THEN [rooms[j] EXCEPT !.available =
                                      rooms[j].available - n]
                             ELSE rooms[j]]_vars

\* a customer has paid for two rooms at once
C3_Witness ==
    /\ last = Said("bookRoom", "booked")
    /\ cur \in 1..Len(users)
    /\ users[cur].balance = F(InitialBalance - 2 * 500)
    /\ \E i \in 1..Len(rooms) : rooms[i].available = rooms[i].total - 2

\* C4: no two user records have the same username.
C4_UsernamesUnique ==
    \A i, j \in 1..Len(users) :
        i # j => users[i].username # users[j].username

\* C5: registerCustomer and addUser with a username some record already
\* has are rejected, and the user store and its file are unchanged.
C5_DuplicateUsernameRejected ==
    [][/\ last'.op = "registerCustomer" =>
          \A u \in UsernameInputs, p \in NewUserPasswordInputs,
             c \in TypeChoiceInputs :
             (/\ \E i \in 1..Len(users) : users[i].username = u
              /\ registerCustomer(u, p, c))
                 => (last'.msg = "username exists" /\ StoresUnchanged)
       /\ last'.op = "addUser" =>
          \A u \in UsernameInputs, p \in NewUserPasswordInputs,
             r \in RoleChoiceInputs, c \in TypeChoiceInputs :
             (/\ \E i \in 1..Len(users) : users[i].username = u
              /\ addUser(u, p, r, c))
                 => (last'.msg = "username exists" /\ StoresUnchanged)]_vars

\* a second registration of the name of a record that is not the first
C5_Witness ==
    /\ last = Said("registerCustomer", "username exists")
    /\ Len(users) >= 2

\* C6: deleteUser / deleteRoom with an ID no record has reports not-found
\* and changes nothing; with an ID a record has, confirmed, it removes
\* exactly that record and keeps the others in order.
C6_DeleteByID ==
    [][/\ last'.op = "deleteUser" =>
          \A id \in UserIDInputs, c \in ConfirmInputs :
             (~Atoi(id).err /\ deleteUser(id, c))
                 => IF Atoi(id).v \notin UserIDs(users)
                    THEN last'.msg = "user not found" /\ StoresUnchanged
                    ELSE c = "y"
                         => /\ users' = Without(users, Atoi(id).v)
                            /\ Len(users') = Len(users) - 1
                            /\ UNCHANGED rooms
       /\ last'.op = "deleteRoom" =>
          \A id \in RoomIDInputs, c \in ConfirmInputs :
             (~Atoi(id).err /\ deleteRoom(id, c))
                 => IF Atoi(id).v \notin RoomIDs(rooms)
                    THEN last'.msg = "room not found" /\ StoresUnchanged
                    ELSE c = "y"
                         => /\ rooms' = Without(rooms, Atoi(id).v)
                            /\ Len(rooms') = Len(rooms) - 1
                            /\ UNCHANGED users]_vars

\* the middle one of three users, then the middle one of three rooms, was
\* deleted: two records of each store are left, in their original order
C6_Witness ==
    /\ last = Said("deleteRoom", "room deleted")
    /\ Len(users) = 2 /\ users[1].id = 1 /\ users[2].id = 3
    /\ Len(rooms) = 2 /\ rooms[1].id = 1 /\ rooms[2].id = 3

\* an unparsable answer: typed, and rejected by the parser
BadFloat(str) == str # "" /\ ParseFloat(str).err
BadInt(str) == str # "" /\ Atoi(str).err

\* C7 as claimed: an updateUser or updateRoom in which a typed number does
\* not parse leaves the record and its file as they were.
C7_InvalidFieldAbortsUpdate ==
    [][/\ last'.op = "updateUser" =>
          \A id \in UserIDInputs, a \in UpdateUserInputs :
             (/\ ~Atoi(id).err /\ Atoi(id).v \in UserIDs(users)
              /\ ByID(users, Atoi(id).v).role = "customer"
              /\ BadFloat(a[4])
              /\ updateUser(id, a[1], a[2], a[3], a[4]))
                 => UNCHANGED <<users, usersFile>>
       /\ last'.op = "updateRoom" =>
          \A id \in RoomIDInputs, a \in UpdateRoomInputs :
             (/\ ~Atoi(id).err /\ Atoi(id).v \in RoomIDs(rooms)
              /\ (BadFloat(a[2]) \/ BadInt(a[3]))
              /\ updateRoom(id, a[1], a[2], a[3]))
                 => UNCHANGED <<rooms, roomsFile>>]_vars

\* C7 as the code has it: the unparsable field keeps its value, every other
\* field typed in the same operation is applied, no other record changes,
\* and the store is saved.
C7_InvalidFieldIsSkipped ==
    [][/\ last' = Said("updateUser", "invalid balance input; user updated") =>
          \A id \in UserIDInputs, a \in UpdateUserInputs :
             (/\ ~Atoi(id).err /\ Atoi(id).v \in UserIDs(users)
              /\ ByID(users, Atoi(id).v).role = "customer"
              /\ BadFloat(a[4])
              /\ updateUser(id, a[1], a[2], a[3], a[4]))
                 => /\ Len(users') = Len(users)
                    /\ \A j \in 1..Len(users) :
                          users'[j] =
                             IF users[j].id = Atoi(id).v
                             THEN [users[j] EXCEPT
                                     !.username = IF a[1] # "" THEN a[1] ELSE @,
                                     !.password = IF a[2] # "" THEN a[2] ELSE @,
                                     !.customer_type =
                                        IF a[3] = "1" THEN "member"
                                        ELSE IF a[3] = "2" THEN "regular" ELSE @]
                             ELSE users[j]
                    /\ (\A j \in 1..Len(users) : IsFinite(users'[j].balance))
                          => UsersPersisted'
       /\ last' = Said("updateRoom", "invalid input; room updated") =>
          \A id \in RoomIDInputs, a \in UpdateRoomInputs :
             (/\ ~Atoi(id).err /\ Atoi(id).v \in RoomIDs(rooms)
              /\ (BadFloat(a[2]) \/ BadInt(a[3]))
              /\ updateRoom(id, a[1], a[2], a[3]))
                 => /\ Len(rooms') = Len(rooms)
                    /\ \A j \in 1..Len(rooms) :
                          rooms'[j] =
                             IF rooms[j].id # Atoi(id).v THEN rooms[j]
                             ELSE LET r == rooms[j]
                                      t == IF a[1] # "" THEN a[1] ELSE r.type
                                  IN IF BadInt(a[3])
                                     THEN [r EXCEPT
                                             !.type = t,
                                             !.price = IF a[2] = "" \/ BadFloat(a[2])
                                                       THEN @ ELSE ParseFloat(a[2]).v]
                                     ELSE [r EXCEPT
                                             !.type = t,
                                             !.total = IF a[3] = "" THEN @
                                                       ELSE Atoi(a[3]).v,
                                             !.available =
                                                IF a[3] = "" THEN @
                                                ELSE IF @ + Atoi(a[3]).v - r.total < 0
                                                THEN 0
                                                ELSE @ + Atoi(a[3]).v - r.total]
                    /\ (\A j \in 1..Len(rooms) :
                           IsFinite(rooms'[j].price) /\ rooms'[j].type # BadUTF8)
                          => RoomsPersisted']_vars

\* a customer was renamed by an update whose balance did not parse
C7_Witness ==
    /\ last = Said("updateUser", "invalid balance input; user updated")
    /\ \E i \in 1..Len(users) :
          /\ users[i].role = "customer"
          /\ users[i].username = "admin"
    /\ UsersPersisted

\* C8 as claimed: of a room present before and after a step, available
\* falls only in a bookRoom step and rises only in an updateRoom step.
C8_AvailableFallsOnlyByBooking ==
    [][\A n \in RoomIDs(rooms) \cap RoomIDs(rooms') :
          /\ ByID(rooms', n).available < ByID(rooms, n).available
                => last'.op = "bookRoom"
          /\ ByID(rooms', n).available > ByID(rooms, n).available
                => last'.op = "updateRoom"]_vars

\* C8 as the code has it: available falls only in a bookRoom step or in an
\* updateRoom step that lowers the total, and rises only in an updateRoom
\* step.
C8_AvailableMoves ==
    [][\A n \in RoomIDs(rooms) \cap RoomIDs(rooms') :
          /\ ByID(rooms', n).available < ByID(rooms, n).available
                => \/ last'.op = "bookRoom"
                   \/ /\ last'.op = "updateRoom"
                      /\ ByID(rooms', n).total < ByID(rooms, n).total
          /\ ByID(rooms', n).available > ByID(rooms, n).available
                => last'.op = "updateRoom"]_vars

\* a total lowered to 0 by an update: available is 0 with it
C8_Witness ==
    /\ last.op = "updateRoom"
    /\ \E i \in 1..Len(rooms) : rooms[i].total = 0 /\ rooms[i].available = 0

\* C9: at every menu prompt, loading the two files yields the users and
\* rooms in memory.
C9_PersistenceTracksMemory ==
    menu # "exit" => (UsersPersisted /\ RoomsPersisted)

\* C10: an add assigns the largest ID of its store plus one (1 to an empty
\* store), and no two records of a store share an ID.
C10_FreshDistinctIDs ==
    /\ [](/\ \A i, j \in 1..Len(users) : i # j => users[i].id # users[j].id
          /\ \A i, j \in 1..Len(rooms) : i # j => rooms[i].id # rooms[j].id)
    /\ [][/\ Len(users') > Len(users)
             => /\ users' = Append(users, users'[Len(users')])
                /\ \A n \in UserIDs(users) : n < users'[Len(users')].id
                /\ users'[Len(users')].id - 1 \in UserIDs(users) \cup {0}
          /\ Len(rooms') > Len(rooms)
             => /\ rooms' = Append(rooms, rooms'[Len(rooms')])
                /\ \A n \in RoomIDs(rooms) : n < rooms'[Len(rooms')].id
                /\ rooms'[Len(rooms')].id - 1 \in RoomIDs(rooms) \cup {0}]_vars

\* each store lost its first record before its latest add: the ID assigned
\* is the largest ID plus one, 3, where the count of records plus one is 2
C10_Witness ==
    /\ last = Said("addRoom", "room added")
    /\ Len(users) = 2 /\ users[1].id = 2 /\ users[2].id = 3
    /\ Len(rooms) = 2 /\ rooms[1].id = 2 /\ rooms[2].id = 3

====
